---- MODULE Spec2Model ----
(***************************************************************************)
(* A model of the trpl support crate (packages/trpl/src/lib.rs): the three *)
(* helpers block_on, timeout and race, and the Either type.                *)
(*                                                                         *)
(* A future handed to a helper is a leaf future: it either never resolves  *)
(* or has an instant readyAt from which every poll of it returns           *)
(* Ready(val).  The executor may poll a pending future at any instant      *)
(* (late and spurious wake-ups included), so the clock `now` advances      *)
(* independently of the polls.  Every poll, drop and return is appended to *)
(* `trace`, in program order.                                              *)
(***************************************************************************)
EXTENDS Integers, Sequences, FiniteSets

\* ---- bounds ----
MaxTime == 3
MaxVal == 2
MaxDur == 2
MaxPolls == 3
MaxBlockDelay == 1
MaxCalls == 2
MaxTasks == 1

VARIABLES now, trace,
          rPc, rF1, rF2, rPolls, rResult,
          tPc, tF, tD, tStart, tPolls, tResult,
          bPc, bRt, bNextRt, bLive, bTasks, bFut, bHist

raceVars == <<rPc, rF1, rF2, rPolls, rResult>>
timeoutVars == <<tPc, tF, tD, tStart, tPolls, tResult>>
blockOnVars == <<bPc, bRt, bNextRt, bLive, bTasks, bFut, bHist>>
vars == <<now, trace, raceVars, timeoutVars, blockOnVars>>

\* ---- futures, the inputs of the helpers ----
Values == 1..MaxVal
Times == 0..MaxTime
Durations == 0..MaxDur

\* A future that never resolves (future::pending()).
NeverFuture == [resolves |-> FALSE, readyAt |-> 0, val |-> 0]

Futures == {NeverFuture} \cup [resolves : {TRUE}, readyAt : Times, val : Values]

\* Future::poll of a leaf future at instant t returns Ready(f.val) iff IsReady.
IsReady(f, t) == f.resolves /\ t >= f.readyAt

Ev(kind, who, ready, at) == [ev |-> kind, who |-> who, ready |-> ready, at |-> at]

NoResult == [tag |-> "None", val |-> 0]

\* ---- Either ----
Left(a) == [tag |-> "Left", val |-> a]
Right(b) == [tag |-> "Right", val |-> b]

\* ---- race ----
\* One poll of future::select(f1, f2): the first operand is polled, and the
\* second only when the first was pending.
\* (Variant: the second operand is polled even when the first was ready.)
SelectPollBoth(a, b, t) ==
    IF IsReady(a, t)
    THEN [ready |-> TRUE, tag |-> "Left", val |-> a.val,
          events |-> <<Ev("poll", "f1", TRUE, t), Ev("poll", "f2", IsReady(b, t), t)>>]
    ELSE IF IsReady(b, t)
    THEN [ready |-> TRUE, tag |-> "Right", val |-> b.val,
          events |-> <<Ev("poll", "f1", FALSE, t), Ev("poll", "f2", TRUE, t)>>]
    ELSE [ready |-> FALSE, tag |-> "None", val |-> 0,
          events |-> <<Ev("poll", "f1", FALSE, t), Ev("poll", "f2", FALSE, t)>>]

\* (Variant: the second operand is polled before the first.)
SelectPollSecondFirst(a, b, t) ==
    IF IsReady(b, t)
    THEN [ready |-> TRUE, tag |-> "Right", val |-> b.val,
          events |-> <<Ev("poll", "f2", TRUE, t)>>]
    ELSE IF IsReady(a, t)
    THEN [ready |-> TRUE, tag |-> "Left", val |-> a.val,
          events |-> <<Ev("poll", "f2", FALSE, t), Ev("poll", "f1", TRUE, t)>>]
    ELSE [ready |-> FALSE, tag |-> "None", val |-> 0,
          events |-> <<Ev("poll", "f2", FALSE, t), Ev("poll", "f1", FALSE, t)>>]

SelectPoll(a, b, t) ==
    IF IsReady(a, t)
    THEN [ready |-> TRUE, tag |-> "Left", val |-> a.val,
          events |-> <<Ev("poll", "f1", TRUE, t)>>]
    ELSE IF IsReady(b, t)
    THEN [ready |-> TRUE, tag |-> "Right", val |-> b.val,
          events |-> <<Ev("poll", "f1", FALSE, t), Ev("poll", "f2", TRUE, t)>>]
    ELSE [ready |-> FALSE, tag |-> "None", val |-> 0,
          events |-> <<Ev("poll", "f1", FALSE, t), Ev("poll", "f2", FALSE, t)>>]

\* The match on select's output: Left((a, _f2)) => Left(a), Right((b, _f1)) => Right(b).
\* (Variant: the two arms build the other tag.)
RaceMatchSwapped(s) == IF s.tag = "Left" THEN Right(s.val) ELSE Left(s.val)

RaceMatch(s) == IF s.tag = "Left" THEN Left(s.val) ELSE Right(s.val)

\* The pinned locals f1 and f2 live until the body of race ends; they are
\* dropped in reverse order of declaration once the result has been built.
RaceExit(t) ==
    <<Ev("drop", "f2", FALSE, t), Ev("drop", "f1", FALSE, t), Ev("return", "race", TRUE, t)>>

\* The executor polls the future returned by race(f1, f2).
RacePoll ==
    /\ rPc \in {"created", "pending"}
    /\ rPolls < MaxPolls
    /\ rPolls' = rPolls + 1
    /\ LET s == SelectPoll(rF1, rF2, now) IN
         IF s.ready
         THEN /\ rResult' = RaceMatch(s)
              /\ rPc' = "returned"
              /\ trace' = trace \o s.events \o RaceExit(now)
         ELSE /\ rResult' = rResult
              /\ rPc' = "pending"
              /\ trace' = trace \o s.events
    /\ UNCHANGED <<now, rF1, rF2, timeoutVars, blockOnVars>>

\* ---- timeout ----
\* tokio::time::timeout(duration, future): the deadline of the timer.
\* (Variant: the duration is left out of the deadline.)
DeadlineNoDuration(start, d) == start

Deadline(start, d) == start + d

\* One poll of tokio's Timeout: the wrapped future is polled first, the timer
\* only when the future was pending.
\* (Variant: the timer is polled before the future.)
TokioTimeoutPollTimerFirst(f, deadline, t) ==
    IF t >= deadline
    THEN [ready |-> TRUE, ok |-> FALSE, val |-> 0,
          events |-> <<Ev("poll", "timer", TRUE, t)>>]
    ELSE IF IsReady(f, t)
    THEN [ready |-> TRUE, ok |-> TRUE, val |-> f.val,
          events |-> <<Ev("poll", "timer", FALSE, t), Ev("poll", "future", TRUE, t)>>]
    ELSE [ready |-> FALSE, ok |-> FALSE, val |-> 0,
          events |-> <<Ev("poll", "timer", FALSE, t), Ev("poll", "future", FALSE, t)>>]

\* (Variant: the future is polled once more after the timer was found elapsed.)
TokioTimeoutPollLastChance(f, deadline, t) ==
    IF IsReady(f, t)
    THEN [ready |-> TRUE, ok |-> TRUE, val |-> f.val,
          events |-> <<Ev("poll", "future", TRUE, t)>>]
    ELSE IF t >= deadline
    THEN [ready |-> TRUE, ok |-> FALSE, val |-> 0,
          events |-> <<Ev("poll", "future", FALSE, t), Ev("poll", "timer", TRUE, t),
                       Ev("poll", "future", FALSE, t)>>]
    ELSE [ready |-> FALSE, ok |-> FALSE, val |-> 0,
          events |-> <<Ev("poll", "future", FALSE, t), Ev("poll", "timer", FALSE, t)>>]

TokioTimeoutPoll(f, deadline, t) ==
    IF IsReady(f, t)
    THEN [ready |-> TRUE, ok |-> TRUE, val |-> f.val,
          events |-> <<Ev("poll", "future", TRUE, t)>>]
    ELSE IF t >= deadline
    THEN [ready |-> TRUE, ok |-> FALSE, val |-> 0,
          events |-> <<Ev("poll", "future", FALSE, t), Ev("poll", "timer", TRUE, t)>>]
    ELSE [ready |-> FALSE, ok |-> FALSE, val |-> 0,
          events |-> <<Ev("poll", "future", FALSE, t), Ev("poll", "timer", FALSE, t)>>]

\* .map_err(|_| duration): Ok(v) is kept, tokio's Elapsed becomes the duration.
Ok(v) == [tag |-> "Ok", val |-> v]
Err(d) == [tag |-> "Err", val |-> d]

\* (Variant: the error carries no duration, as tokio's Elapsed.)
MapErrOpaque(r, duration) == IF r.ok THEN Ok(r.val) ELSE Err(0)

MapErr(r, duration) == IF r.ok THEN Ok(r.val) ELSE Err(duration)

\* The awaited Timeout (the wrapped future and the timer in it) is dropped
\* when the .await completes, before map_err runs and timeout returns.
TimeoutExit(t) ==
    <<Ev("drop", "future", FALSE, t), Ev("drop", "timer", FALSE, t),
      Ev("return", "timeout", TRUE, t)>>

\* The executor polls the future returned by timeout(duration, future).  The
\* body of the async fn runs on the first poll, which is when the timer starts.
TimeoutPoll ==
    /\ tPc \in {"created", "pending"}
    /\ tPolls < MaxPolls
    /\ tPolls' = tPolls + 1
    /\ tStart' = IF tPc = "created" THEN now ELSE tStart
    /\ LET r == TokioTimeoutPoll(tF, Deadline(tStart', tD), now) IN
         IF r.ready
         THEN /\ tResult' = MapErr(r, tD)
              /\ tPc' = "returned"
              /\ trace' = trace \o r.events \o TimeoutExit(now)
         ELSE /\ tResult' = tResult
              /\ tPc' = "pending"
              /\ trace' = trace \o r.events
    /\ UNCHANGED <<now, tF, tD, raceVars, blockOnVars>>

\* ---- block_on ----
\* The futures handed to block_on.
BlockOnFutures == {f \in Futures : f.readyAt <= MaxBlockDelay}

\* Runtime::new(): a new runtime, identified by the number of runtimes built
\* so far, or an error when the operating system refuses the resources.
\* (Variant: one pooled runtime serves every call.)
RuntimeNewPooled(ok, next) ==
    [ok |-> ok, id |-> IF ok THEN 1 ELSE 0]

RuntimeNew(ok, next) ==
    [ok |-> ok, id |-> IF ok THEN next ELSE 0]

\* Result::unwrap(): the runtime, or a panic.
\* (Variant: a failed construction falls back to an existing runtime.)
UnwrapOrFallback(r) == [panic |-> FALSE, id |-> IF r.ok THEN r.id ELSE 1]

Unwrap(r) == [panic |-> ~r.ok, id |-> r.id]

\* Dropping the runtime at the end of block_on shuts it down: it leaves the
\* live runtimes, and its unfinished tasks are dropped.
\* (Variant: the runtime is leaked instead of dropped.)
DropRuntimeLeaked(live, tasks, rt) == [live |-> live, tasks |-> tasks]

DropRuntime(live, tasks, rt) ==
    [live |-> live \ {rt},
     tasks |-> [i \in DOMAIN tasks |->
                  IF tasks[i].rt = rt /\ tasks[i].state = "running"
                  THEN [tasks[i] EXCEPT !.state = "dropped"]
                  ELSE tasks[i]]]

\* The value rt.block_on(future) hands back is the output of the future.
\* (Variant: a default value is returned instead of the output.)
BlockOnOutputDefault(v) == 0

BlockOnOutput(v) == v

\* The unfinished tasks a runtime holds.
RuntimeTasks(tasks, rt) ==
    {i \in DOMAIN tasks : tasks[i].rt = rt /\ tasks[i].state = "running"}

\* block_on(future) is called: the runtime is built and unwrapped.  When
\* that panics, the future is dropped unpolled while the stack unwinds.
BlockOnCall ==
    /\ bPc = "idle"
    /\ Len(bHist) < MaxCalls
    /\ \E f \in BlockOnFutures, ok \in BOOLEAN :
         LET rt == Unwrap(RuntimeNew(ok, bNextRt)) IN
           IF rt.panic
           THEN /\ bPc' = "panicked"
                /\ bHist' = Append(bHist, [rt |-> 0, outcome |-> "panicked", val |-> 0,
                                           fut |-> f, polled |-> FALSE, pended |-> FALSE,
                                           inherited |-> 0, built |-> FALSE])
                /\ UNCHANGED <<bRt, bNextRt, bLive, bFut>>
           ELSE /\ bPc' = "running"
                /\ bRt' = rt.id
                /\ bNextRt' = bNextRt + 1
                /\ bLive' = bLive \cup {rt.id}
                /\ bFut' = f
                /\ bHist' = Append(bHist, [rt |-> rt.id, outcome |-> "running", val |-> 0,
                                           fut |-> f, polled |-> FALSE, pended |-> FALSE,
                                           inherited |-> Cardinality(RuntimeTasks(bTasks, rt.id)),
                                           built |-> ok])
    /\ UNCHANGED <<now, trace, bTasks, raceVars, timeoutVars>>

\* rt.block_on(future) polls the future; when it is ready block_on returns
\* its output and the runtime is dropped.
BlockOnPoll ==
    /\ bPc = "running"
    /\ IF IsReady(bFut, now)
       THEN LET d == DropRuntime(bLive, bTasks, bRt) IN
              /\ bPc' = "idle"
              /\ bLive' = d.live
              /\ bTasks' = d.tasks
              /\ bHist' = [bHist EXCEPT ![Len(bHist)] =
                             [@ EXCEPT !.outcome = "returned",
                                       !.val = BlockOnOutput(bFut.val),
                                       !.polled = TRUE]]
       ELSE /\ bHist' = [bHist EXCEPT ![Len(bHist)] =
                           [@ EXCEPT !.polled = TRUE, !.pended = TRUE]]
            /\ UNCHANGED <<bPc, bLive, bTasks>>
    /\ UNCHANGED <<now, trace, bRt, bNextRt, bFut, raceVars, timeoutVars>>

\* spawn_task(..) inside the running future: the task goes to the runtime
\* of the current call.
SpawnTask ==
    /\ bPc = "running"
    /\ Len(bTasks) < MaxTasks
    /\ bTasks' = Append(bTasks, [rt |-> bRt, state |-> "running",
                                 born |-> Len(bHist), lastRun |-> 0])
    /\ UNCHANGED <<now, trace, bPc, bRt, bNextRt, bLive, bFut, bHist,
                   raceVars, timeoutVars>>

\* A worker of a live runtime polls one of the runtime's tasks; the task
\* may finish on that poll.
TaskStep ==
    /\ \E i \in DOMAIN bTasks, fin \in BOOLEAN :
         /\ bTasks[i].state = "running"
         /\ bTasks[i].rt \in bLive
         /\ bTasks' = [bTasks EXCEPT ![i] =
                         [@ EXCEPT !.lastRun = Len(bHist),
                                   !.state = IF fin THEN "finished" ELSE "running"]]
    /\ UNCHANGED <<now, trace, bPc, bRt, bNextRt, bLive, bFut, bHist,
                   raceVars, timeoutVars>>

\* ---- time ----
Tick ==
    /\ now < MaxTime
    /\ now' = now + 1
    /\ UNCHANGED <<trace, raceVars, timeoutVars, blockOnVars>>

\* ---- specifications ----
RaceIdle ==
    /\ rPc = "idle" /\ rF1 = NeverFuture /\ rF2 = NeverFuture
    /\ rPolls = 0 /\ rResult = NoResult

TimeoutIdle ==
    /\ tPc = "idle" /\ tF = NeverFuture /\ tD = 0 /\ tStart = 0
    /\ tPolls = 0 /\ tResult = NoResult

BlockOnIdle ==
    /\ bPc = "off" /\ bRt = 0 /\ bNextRt = 1 /\ bLive = {} /\ bTasks = <<>>
    /\ bFut = NeverFuture /\ bHist = <<>>

InitRace ==
    /\ now = 0 /\ trace = <<>>
    /\ rPc = "created" /\ rF1 \in Futures /\ rF2 \in Futures
    /\ rPolls = 0 /\ rResult = NoResult
    /\ TimeoutIdle /\ BlockOnIdle

NextRace == RacePoll \/ Tick

SpecRace == InitRace /\ [][NextRace]_vars

InitTimeout ==
    /\ now = 0 /\ trace = <<>>
    /\ tPc = "created" /\ tF \in Futures /\ tD \in Durations /\ tStart = 0
    /\ tPolls = 0 /\ tResult = NoResult
    /\ RaceIdle /\ BlockOnIdle

NextTimeout == TimeoutPoll \/ Tick

SpecTimeout == InitTimeout /\ [][NextTimeout]_vars

InitBlockOn ==
    /\ now = 0 /\ trace = <<>>
    /\ bPc = "idle" /\ bRt = 0 /\ bNextRt = 1 /\ bLive = {} /\ bTasks = <<>>
    /\ bFut = NeverFuture /\ bHist = <<>>
    /\ RaceIdle /\ TimeoutIdle

NextBlockOn == BlockOnCall \/ BlockOnPoll \/ SpawnTask \/ TaskStep \/ Tick

SpecBlockOn == InitBlockOn /\ [][NextBlockOn]_vars

\* ---- reading the trace ----
PollsOf(who) == {i \in DOMAIN trace : trace[i].ev = "poll" /\ trace[i].who = who}
ReadyPolls == {i \in DOMAIN trace : trace[i].ev = "poll" /\ trace[i].ready}
Returns == {i \in DOMAIN trace : trace[i].ev = "return"}
DropsOf(who) == {i \in DOMAIN trace : trace[i].ev = "drop" /\ trace[i].who = who}
LastAt == trace[Len(trace)].at

\* ---- race: claims ----
\* C1: race returns Left(a) exactly when f1 is the future whose poll produced
\* a value first, a being f1's output, and Right(b) exactly when f2 is, b
\* being f2's output; an immediately ready f1 against a never resolving f2
\* gives Left, an immediately ready f2 against a never resolving f1 Right.
C1_RaceTagsTheFirstToFinish ==
    /\ rPc # "returned" => rResult = NoResult
    /\ rPc = "returned" =>
         /\ rResult.tag \in {"Left", "Right"}
         /\ rResult.tag = "Left" <=>
              \E i \in ReadyPolls : trace[i].who = "f1" /\ \A j \in ReadyPolls : i <= j
         /\ rResult.tag = "Right" <=>
              \E i \in ReadyPolls : trace[i].who = "f2" /\ \A j \in ReadyPolls : i <= j
         /\ rResult.tag = "Left" => rResult.val = rF1.val
         /\ rResult.tag = "Right" => rResult.val = rF2.val
         /\ (IsReady(rF1, 0) /\ ~rF2.resolves) => rResult = Left(rF1.val)
         /\ (IsReady(rF2, 0) /\ ~rF1.resolves) => rResult = Right(rF2.val)

C1_Witness ==
    /\ rPc = "returned" /\ rResult.tag = "Right" /\ rPolls >= 2
    /\ rF1.resolves /\ rF1.val # rF2.val

\* C4: when both futures are ready on the poll that ends the race, the result
\* is Left with the first future's value; the second future is polled only
\* right after a pending poll of the first one, at the same instant.
C4_RaceTieFavoursFirst ==
    /\ (rPc = "returned" /\ IsReady(rF1, LastAt) /\ IsReady(rF2, LastAt))
          => rResult = Left(rF1.val)
    /\ \A i \in PollsOf("f2") :
          /\ i > 1
          /\ trace[i - 1] = Ev("poll", "f1", FALSE, trace[i].at)
    /\ \A i \in PollsOf("f1") : i = 1 \/ trace[i - 1].who # "f1"

C4_Witness ==
    /\ rPc = "returned" /\ rResult.tag = "Left"
    /\ rF2.resolves /\ rF2.readyAt < rF1.readyAt /\ rF1.val # rF2.val
    /\ rPolls >= 2

\* C5: a race has at most one winner; after a future has produced a value no
\* future is polled again, the loser never produces a value and its output
\* is not the result; both futures are dropped as race returns, and nothing
\* happens after the return.
C5_RaceAtMostOneWinner ==
    /\ Cardinality(ReadyPolls) <= 1
    /\ \A i \in ReadyPolls : \A j \in DOMAIN trace : j > i => trace[j].ev # "poll"
    /\ rPc = "returned" <=> Returns # {}
    /\ rPc = "returned" =>
         /\ Cardinality(ReadyPolls) = 1
         /\ Returns = {Len(trace)}
         /\ \A w \in {"f1", "f2"} :
              /\ Cardinality(DropsOf(w)) = 1
              /\ \A d \in DropsOf(w) : d >= Len(trace) - 2 /\ \A i \in ReadyPolls : i < d
         /\ \A i \in ReadyPolls :
              rResult = IF trace[i].who = "f1" THEN Left(rF1.val) ELSE Right(rF2.val)
    /\ rPc # "returned" => DropsOf("f1") \cup DropsOf("f2") = {}

C5_Witness ==
    /\ rPc = "returned" /\ rResult.tag = "Left"
    /\ IsReady(rF2, LastAt) /\ rF2.val # rF1.val
    /\ now > LastAt

\* ---- timeout: claims ----
TimerFired == {i \in PollsOf("timer") : trace[i].ready}

C3_TimeoutOkBeforeDeadline ==
    /\ (tPc = "returned" /\ tD > 0 /\ tF.resolves /\ tF.readyAt < tStart + tD)
          => tResult = Ok(tF.val)
    /\ (tPc = "returned" /\ PollsOf("future") \cap ReadyPolls # {})
          => tResult = Ok(tF.val)

C3_Witness ==
    /\ tPc = "returned" /\ tResult.tag = "Ok" /\ tD > 0
    /\ tF.readyAt > tStart /\ tF.readyAt < tStart + tD
    /\ tPolls >= 2

\* C10: a future that is ready on a poll of timeout wins even when the timer
\* has elapsed by then (a zero duration included): the result is Ok with its
\* value; the timer is polled only right after a pending poll of the future.
C10_TimeoutTieFavoursFuture ==
    /\ (tPc = "returned" /\ IsReady(tF, LastAt)) => tResult = Ok(tF.val)
    /\ \A i \in PollsOf("timer") :
          /\ i > 1
          /\ trace[i - 1] = Ev("poll", "future", FALSE, trace[i].at)
    /\ \A i \in PollsOf("future") : i = 1 \/ trace[i - 1].who # "future"

C10_Witness ==
    /\ tPc = "returned" /\ tResult.tag = "Ok"
    /\ LastAt >= tStart + tD
    /\ tPolls >= 2

\* C6: once a poll of the timer has found it elapsed, the wrapped future is
\* not polled again; it has never produced a value, and it is dropped before
\* timeout returns Err, after which nothing happens.
C6_TimeoutAbandonsFuture ==
    /\ \A i \in TimerFired : \A j \in PollsOf("future") : j < i /\ ~trace[j].ready
    /\ (tPc = "returned" /\ tResult.tag = "Err") =>
         /\ TimerFired # {}
         /\ Returns = {Len(trace)}
         /\ Cardinality(DropsOf("future")) = 1
         /\ \A d \in DropsOf("future") :
              /\ d < Len(trace)
              /\ \A i \in TimerFired : i < d
    /\ tPc # "returned" => (DropsOf("future") = {} /\ Returns = {})

C6_Witness ==
    /\ tPc = "returned" /\ tResult.tag = "Err"
    /\ tF.resolves /\ now >= tF.readyAt

\* ---- block_on: claims ----
Calls == DOMAIN bHist

\* C7: every call of block_on that gets a runtime gets one no other call has
\* had, finds no task on it, and tears it down on return: only the runtime
\* of the running call is live, every unfinished task is on it, and a task
\* only ever runs during the call that spawned it.
C7_BlockOnFreshRuntime ==
    /\ \A i, j \in Calls : (i < j /\ bHist[i].rt # 0 /\ bHist[j].rt # 0)
                              => bHist[i].rt # bHist[j].rt
    /\ \A i \in Calls : bHist[i].inherited = 0
    /\ bLive = IF bPc = "running" THEN {bRt} ELSE {}
    /\ \A k \in DOMAIN bTasks :
          /\ bTasks[k].lastRun \in {0, bTasks[k].born}
          /\ bTasks[k].rt = bHist[bTasks[k].born].rt
          /\ bTasks[k].state = "running" =>
               (bPc = "running" /\ bTasks[k].rt = bRt /\ bTasks[k].born = Len(bHist))

C7_Witness ==
    /\ Len(bHist) = 2 /\ bPc = "running" /\ bHist[2].pended
    /\ \E k \in DOMAIN bTasks :
          bTasks[k].born = 1 /\ bTasks[k].state = "dropped" /\ bTasks[k].lastRun = 1

\* C8: a call of block_on whose runtime cannot be built panics: it returns
\* no value, the future is never polled, and the program goes no further.
C8_BlockOnPanicsWithoutRuntime ==
    /\ \A i \in Calls :
          ~bHist[i].built =>
             /\ bHist[i].outcome = "panicked"
             /\ ~bHist[i].polled
             /\ bHist[i].val = 0
             /\ bHist[i].rt = 0
             /\ i = Len(bHist)
             /\ bPc = "panicked"
    /\ bPc = "panicked" => (Len(bHist) > 0 /\ ~bHist[Len(bHist)].built)

C8_Witness ==
    /\ bPc = "panicked" /\ Len(bHist) = 2
    /\ bHist[2].fut.resolves /\ now >= bHist[2].fut.readyAt

\* C9: a call of block_on with a runtime returns exactly the value of its
\* future, and not before a poll has found the future ready; until then the
\* call is still running.
C9_BlockOnReturnsFutureOutput ==
    \A i \in Calls :
       /\ bHist[i].outcome = "returned" =>
            /\ bHist[i].fut.resolves
            /\ bHist[i].val = bHist[i].fut.val
            /\ bHist[i].polled
            /\ now >= bHist[i].fut.readyAt
       /\ bHist[i].outcome = "running" =>
            /\ i = Len(bHist) /\ bPc = "running" /\ bFut = bHist[i].fut
            /\ bHist[i].val = 0

C9_Witness ==
    \E i \in Calls :
       /\ bHist[i].outcome = "returned" /\ bHist[i].pended
       /\ bHist[i].val = MaxVal

====
